---------------------------- MODULE Spec2Model ----------------------------
(***************************************************************************)
(* A model of the LLM council back end (src/backend): the retrying model   *)
(* client (openrouter.py), the JSON recovery chain of query_model_json,    *)
(* the three stages (generator.py, evaluator.py, synthesizer.py), the      *)
(* safety gate (safety/gate.py), the audit log (audit/logger.py) and the   *)
(* deliberate endpoint (main.py).                                          *)
(*                                                                         *)
(* Three specifications share the module:                                  *)
(*   SpecQuery  one query_model call, attempt by attempt;                  *)
(*   SpecJson   query_model_json applied to bounded reply contents;        *)
(*   Spec       deliberate, run after run, against one audit log.          *)
(***************************************************************************)
EXTENDS Integers, Sequences, FiniteSets, TLC

VARIABLES
    \* ---- one query_model call (openrouter.py:9-100)
    qMax,        \* its max_retries argument
    qAttempt,    \* the loop variable `attempt`
    qPc,         \* "loop" while the for loop runs, "done" once it returned
    qResult,     \* "pending", "reply", "None" or "raised"
    qLog,        \* one entry per request sent: outcome class, attempt, delay slept
    \* ---- one query_model_json call (openrouter.py:130-246)
    jReply,      \* what query_model returned to it
    jPc,         \* "call" before the call, "done" after
    jResult,     \* what query_model_json returned (or that it raised)
    \* ---- the deliberate endpoint and what it runs (main.py:75-181)
    GENERATOR_MODELS,   \* config.py:19-23, read once at import
    pc,                 \* where the current run of deliberate stands
    runs,               \* how many runs have started
    question_ok,        \* whether the question passes the validation of line 99
    gen_returned,       \* stage 1: what each query_model call returned
    agent_responses,    \* stage 1: the list it returns
    judge_prompts,      \* stage 2: the prompt of each judge's call
    judge_outputs,      \* stage 2: what each query_model_json call returned
    judge_evaluations,  \* stage 2: the list it returns
    synthesis_data,     \* stage 3: what query_model_json returned
    decision,           \* stage 3: the DecisionObject
    safety_result,      \* what safety_check returned
    next_uuid,          \* the next value of uuid.uuid4()
    audit_log,          \* the rows of table audit_log, in insertion order
    responses,          \* what deliberate gave each finished run's caller
    \* ---- the AuditLogger on its one connection, and the audit endpoints
    \*      (logger.py:10-160, main.py:187-273)
    aStore,      \* the rows of audit_log in the database file, in rowid order
    aPending,    \* the rows inserted on self.conn and not yet committed
    aThread,     \* per thread: what log_decision was called with, between
                 \* its INSERT and its commit; NoRow outside
    aReply,      \* what the last finished call or request gave its caller
    \* ---- one run of deliberate with each model call a task of its own
    \*      (main.py:105-134, openrouter.py:103-125, evaluator.py:66-76)
    fStage,      \* the await that deliberate stands at
    fTasks,      \* per model call: its state, its loop variable `attempt`,
                 \* its result, and the outcome of its last request
    fDone        \* which of the safety gate and the audit write have run

qvars == <<qMax, qAttempt, qPc, qResult, qLog>>
jvars == <<jReply, jPc, jResult>>
pvars == <<GENERATOR_MODELS, pc, runs, question_ok, gen_returned, agent_responses,
           judge_prompts, judge_outputs, judge_evaluations, synthesis_data, decision,
           safety_result, next_uuid, audit_log, responses>>
avars == <<aStore, aPending, aThread, aReply>>
fvars == <<fStage, fTasks, fDone>>
vars == <<qvars, jvars, pvars, avars, fvars>>

----------------------------------------------------------------------------
(* Bounds of the model *)

\* the largest max_retries a call is started with (the default is 3)
MaxRetries == 5

----------------------------------------------------------------------------
(* query_model: openrouter.py:9-100 *)

\* What one request can come to: a 200 reply whose body has
\* choices[0].message (with or without a content field), an HTTP error
\* status raised by raise_for_status, a timeout, a connection error, or a
\* 200 reply whose body lacks choices[0].message.
HttpErrors == {"http401", "http402", "http403", "http404", "http429", "http500"}
Outcomes == {"ok", "ok_nocontent"} \cup HttpErrors
              \cup {"timeout", "connect_error", "bad_body"}

status_code(o) ==
    CASE o = "http401" -> 401
      [] o = "http402" -> 402
      [] o = "http403" -> 403
      [] o = "http404" -> 404
      [] o = "http429" -> 429
      [] o = "http500" -> 500
      [] OTHER -> 200

\* Mutant: the try statement without its last clause, `except Exception`.
except_clause_no_generic(o) ==
    IF o \in {"ok", "ok_nocontent"} THEN "none"
    ELSE IF o \in HttpErrors THEN "HTTPStatusError"
    ELSE IF o = "timeout" THEN "TimeoutException"
    ELSE "uncaught"

\* The except clause of the try statement that catches what the request
\* raised: clauses are tried in order, and the last one catches every
\* Exception (KeyError, IndexError, httpx.ConnectError, ...).
except_clause(o) ==
    IF o \in {"ok", "ok_nocontent"} THEN "none"
    ELSE IF o \in HttpErrors THEN "HTTPStatusError"
    ELSE IF o = "timeout" THEN "TimeoutException"
    ELSE "Exception"

\* Mutant: the exponent is off by one.
rate_limit_delay_off_by_one(attempt) == 2 ^ (attempt + 1)

\* delay = 2 ** attempt
rate_limit_delay(attempt) == 2 ^ attempt

\* if attempt < max_retries - 1: await asyncio.sleep(1); continue
\* return None
retry_or_give_up(attempt, max_retries) ==
    IF attempt < max_retries - 1
    THEN [act |-> "continue", delay |-> 1]
    ELSE [act |-> "return_none", delay |-> 0]

\* One iteration of the for loop on a request that came to o: what the
\* body does (return the reply, return None, continue, or let the
\* exception go) and how long it sleeps first.
loop_body(o, attempt, max_retries) ==
    LET clause == except_clause(o) IN
    CASE clause = "none" -> [act |-> "return_reply", delay |-> 0]
      [] clause = "HTTPStatusError" ->
            IF status_code(o) = 429 /\ attempt < max_retries - 1
            THEN [act |-> "continue", delay |-> rate_limit_delay(attempt)]
            ELSE IF status_code(o) = 402 THEN [act |-> "return_none", delay |-> 0]
            ELSE IF status_code(o) = 404 THEN [act |-> "return_none", delay |-> 0]
            ELSE retry_or_give_up(attempt, max_retries)
      [] clause = "TimeoutException" -> retry_or_give_up(attempt, max_retries)
      [] clause = "Exception" -> retry_or_give_up(attempt, max_retries)
      [] OTHER -> [act |-> "raise", delay |-> 0]

\* The state of a call that has not sent a request yet.
QueryInit ==
    /\ qMax \in 0..MaxRetries
    /\ qAttempt = 0
    /\ qPc = "loop"
    /\ qResult = "pending"
    /\ qLog = <<>>

\* One iteration of `for attempt in range(max_retries)`.
query_model_attempt ==
    /\ qPc = "loop"
    /\ qAttempt < qMax
    /\ \E o \in Outcomes :
          LET b == loop_body(o, qAttempt, qMax) IN
          /\ qLog' = Append(qLog, [cls |-> o, attempt |-> qAttempt, delay |-> b.delay])
          /\ IF b.act = "continue"
             THEN /\ qAttempt' = qAttempt + 1
                  /\ UNCHANGED <<qPc, qResult>>
             ELSE /\ qPc' = "done"
                  /\ qResult' = CASE b.act = "return_reply" -> "reply"
                                  [] b.act = "return_none" -> "None"
                                  [] OTHER -> "raised"
                  /\ UNCHANGED qAttempt
    /\ UNCHANGED <<qMax, jvars, pvars, avars, fvars>>

\* The loop ran out (range(max_retries) is exhausted): line 99-100.
query_model_exhausted ==
    /\ qPc = "loop"
    /\ qAttempt >= qMax
    /\ qPc' = "done"
    /\ qResult' = "None"
    /\ UNCHANGED <<qMax, qAttempt, qLog, jvars, pvars, avars, fvars>>

\* The caller makes its next call, with a max_retries of its choice.
query_model_call ==
    /\ qPc = "done"
    /\ qMax' \in 0..MaxRetries
    /\ qAttempt' = 0
    /\ qPc' = "loop"
    /\ qResult' = "pending"
    /\ qLog' = <<>>
    /\ UNCHANGED <<jvars, pvars, avars, fvars>>

----------------------------------------------------------------------------
(* query_model_json: openrouter.py:130-246 *)

\* A reply content of type str is a sequence of tokens, each a piece of text:
\*   "{" "}"    the braces
\*   "M1" "M2"  two different object members with scalar values, each with
\*              the comma that separates it from its neighbours
\*   "K"        a member's key and colon, to be followed by the value
\*   "n"        a JSON value that is no object (a number, a string, a list)
\*   "w"        a word of prose
\*   "s"        white space
\*   "F"        a code fence, three backticks
Tokens == {"{", "}", "M1", "M2", "K", "n", "w", "s", "F"}

\* The pieces the contents of the model are put together from.
Segments ==
    { <<"w">>, <<"s">>, <<"n">>, <<"F">>, <<"{">>, <<"}">>,
      <<"{", "M1", "}">>,
      <<"{", "M2", "}">>,
      <<"{", "w", "}">>,
      <<"{", "K", "{", "M1", "}", "}">>,
      <<"{", "M2", "K", "{", "K", "{", "M1", "}", "}", "}">> }

\* the most segments a content is made of
MaxSegments == 4

RECURSIVE SegmentSeqs(_)
SegmentSeqs(k) ==
    IF k = 0 THEN {<<>>}
    ELSE LET P == SegmentSeqs(k - 1)
         IN  P \cup {p \o g : p \in P, g \in Segments}

Contents == SegmentSeqs(MaxSegments)

\* What query_model hands to query_model_json: None, or the mapping
\* {'content': ...} whose content is None, a str, a dict or of another type.
Replies ==
    {[resp |-> "None", ctype |-> "none", text |-> <<>>]}
      \cup {[resp |-> "reply", ctype |-> t, text |-> <<>>] : t \in {"none", "dict", "other"}}
      \cup {[resp |-> "reply", ctype |-> "str", text |-> c] : c \in Contents}

\* json.loads: white space between tokens is skipped, and the whole text
\* must be one JSON value. value_end and members_end give the index after
\* the value (the object's members and closing brace) that starts at i, or
\* 0 when there is none.
RECURSIVE value_end(_, _), members_end(_, _)
value_end(t, i) ==
    IF i > Len(t) THEN 0
    ELSE IF t[i] = "n" THEN i + 1
    ELSE IF t[i] = "{" THEN members_end(t, i + 1)
    ELSE 0
members_end(t, i) ==
    IF i > Len(t) THEN 0
    ELSE IF t[i] = "}" THEN i + 1
    ELSE IF t[i] \in {"M1", "M2"} THEN members_end(t, i + 1)
    ELSE IF t[i] = "K"
         THEN LET j == value_end(t, i + 1)
              IN  IF j = 0 THEN 0 ELSE members_end(t, j)
    ELSE 0

strip_space(text) == SelectSeq(text, LAMBDA c : c # "s")

\* json.loads(text): the value (written without white space), or
\* JSONDecodeError.
json_loads(text) ==
    LET t == strip_space(text)
    IN  IF value_end(t, 1) = Len(t) + 1
        THEN [ok |-> TRUE, val |-> t]
        ELSE [ok |-> FALSE, val |-> <<>>]

\* re.search(r'``````', content): the pattern is six backticks, two fences
\* with nothing between them, and has no group.
six_backticks_found(text) ==
    \E i \in 1..(Len(text) - 1) : text[i] = "F" /\ text[i + 1] = "F"

\* The match of r'\{[^{}]*(?:\{[^{}]*\}[^{}]*)*\}' that starts after an
\* opening brace: the index of its closing brace, or 0. Inside the outer
\* braces (depth 1) a brace pair may open (depth 2); a third opening brace,
\* or the end of the text, ends the attempt.
RECURSIVE brace_match_end(_, _, _)
brace_match_end(text, p, depth) ==
    IF p > Len(text) THEN 0
    ELSE IF text[p] = "{"
         THEN IF depth = 1 THEN brace_match_end(text, p + 1, 2) ELSE 0
    ELSE IF text[p] = "}"
         THEN IF depth = 2 THEN brace_match_end(text, p + 1, 1) ELSE p
    ELSE brace_match_end(text, p + 1, depth)

brace_match_starts(text) ==
    {i \in 1..Len(text) : text[i] = "{" /\ brace_match_end(text, i + 1, 1) # 0}

\* re.search: the leftmost match, as group(0), or no match.
brace_search(text) ==
    LET S == brace_match_starts(text)
    IN  IF S = {} THEN [found |-> FALSE, group0 |-> <<>>]
        ELSE LET i == CHOOSE m \in S : \A k \in S : m <= k
             IN  [found |-> TRUE,
                  group0 |-> SubSeq(text, i, brace_match_end(text, i + 1, 1))]

\* What query_model_json gives back: a returned value (kind "json": the
\* parsed value val, by the step `by`; kind "dict": the content itself;
\* kind "fallback": one of the literal fallback dicts, `by` naming which)
\* or an exception (kind "raise").
Returned(kind, by, val) == [kind |-> kind, by |-> by, val |-> val]

\* The four literal dicts that query_model_json returns as placeholders:
\* every one has "fallback": True, rankings agent_0..agent_2 and scores {};
\* the two of lines 167-180 and 190-200 have the synthesizer's fields too
\* (final_answer, confidence 0.3, risks [], citations []).
fallback_dict(by) ==
    [fallback |-> TRUE,
     rankings |-> <<0, 1, 2>>,
     scores |-> "empty",
     synthesis_fields |-> by \in {"none_response", "none_content"}]

\* Lines 207-237, content a str.
recover_json(content) ==
    LET direct == json_loads(content)
        scan == brace_search(content)
    IN  IF direct.ok THEN Returned("json", "direct", direct.val)
        ELSE IF six_backticks_found(content)
             \* json_match.group(1): IndexError, no such group
             THEN Returned("raise", "IndexError", <<>>)
        ELSE IF scan.found /\ json_loads(scan.group0).ok
             THEN Returned("json", "scan", json_loads(scan.group0).val)
        ELSE Returned("fallback", "parse_failed", <<>>)

\* Mutant: a None from query_model is raised on, not answered with a dict.
query_model_json_result_raises_on_none(reply) ==
    IF reply.resp = "None" THEN Returned("raise", "ValueError", <<>>)
    ELSE IF reply.ctype = "none" THEN Returned("fallback", "none_content", <<>>)
    ELSE IF reply.ctype = "dict" THEN Returned("dict", "content", <<>>)
    ELSE IF reply.ctype = "str" THEN recover_json(reply.text)
    ELSE Returned("fallback", "unexpected_type", <<>>)

\* Lines 157-246.
query_model_json_result(reply) ==
    IF reply.resp = "None" THEN Returned("fallback", "none_response", <<>>)
    ELSE IF reply.ctype = "none" THEN Returned("fallback", "none_content", <<>>)
    ELSE IF reply.ctype = "dict" THEN Returned("dict", "content", <<>>)
    ELSE IF reply.ctype = "str" THEN recover_json(reply.text)
    ELSE Returned("fallback", "unexpected_type", <<>>)

JsonIdle ==
    /\ jReply = [resp |-> "None", ctype |-> "none", text |-> <<>>]
    /\ jPc = "idle"
    /\ jResult = Returned("none", "none", <<>>)

QueryIdle ==
    /\ qMax = 0
    /\ qAttempt = 0
    /\ qPc = "idle"
    /\ qResult = "pending"
    /\ qLog = <<>>

\* query_model has returned `reply` to query_model_json.
JsonInit ==
    /\ jReply \in Replies
    /\ jPc = "call"
    /\ jResult = Returned("none", "none", <<>>)

\* The rest of query_model_json, from line 164 to its return.
query_model_json ==
    /\ jPc = "call"
    /\ jResult' = query_model_json_result(jReply)
    /\ jPc' = "done"
    /\ UNCHANGED <<jReply, qvars, pvars, avars, fvars>>

----------------------------------------------------------------------------
(* Configuration: config.py *)

\* The generator lists the runs are made with: three different identifiers
\* (the shape of the defaults), a list in which the environment names one
\* model at two positions, a list of two, and a list whose first
\* identifier is longer than 200 characters.
GeneratorConfigs ==
    { <<"model_a", "model_b", "model_c">>,
      <<"model_a", "model_b", "model_a">>,
      <<"model_a", "model_b">>,
      <<"model_long", "model_b", "model_c">> }

\* Two judges (config.py:25-28).
JUDGE_MODELS == <<"model_a", "model_b">>

\* the most runs of deliberate in a behaviour
MaxRuns == 2

Range(f) == {f[i] : i \in DOMAIN f}

----------------------------------------------------------------------------
(* Stage 1: generator.py:13-53, openrouter.py:103-125 *)

\* What a query_model call hands back to stage 1: None, or a reply mapping
\* with its content.
GeneratorReturns == {"None", "reply_x", "reply_y"}

\* The keys of {model: response for model, response in zip(models,
\* responses)} in iteration order: each model once, at the place of its
\* first occurrence.
RECURSIVE dict_keys(_)
dict_keys(models) ==
    IF models = <<>> THEN <<>>
    ELSE LET front == SubSeq(models, 1, Len(models) - 1)
             last == models[Len(models)]
         IN  IF last \in Range(front)
             THEN dict_keys(front)
             ELSE Append(dict_keys(front), last)

\* query_models_parallel: the dict it returns, as its keys in order and the
\* value of each key (a later pair overwrites an earlier one).
query_models_parallel(models, returned) ==
    [keys |-> dict_keys(models),
     value |-> [m \in Range(models) |->
                  returned[CHOOSE i \in DOMAIN models :
                              /\ models[i] = m
                              /\ \A k \in DOMAIN models : models[k] = m => k <= i]]]

Min(a, b) == IF a <= b THEN a ELSE b

\* for i, (model, response) in enumerate(zip(GENERATOR_MODELS, responses)):
\* iterating the dict yields its keys, and zip stops with the shorter one.
stage1_agent_responses(models, response_dict) ==
    [i \in 1..Min(Len(models), Len(response_dict.keys)) |->
        [agent_id |-> i - 1, model |-> models[i], response |-> response_dict.keys[i]]]

----------------------------------------------------------------------------
(* Stage 2: evaluator.py:42-125 *)

\* Lines 59-61: the transcript, one entry for each agent response in list
\* order: "Response <letter> (agent_<i>):" and the response text below it.
\* The letter chr(65 + i) is written i.
anonymized_text(agent_responses_) ==
    [k \in DOMAIN agent_responses_ |->
        [letter |-> k - 1, agent |-> k - 1, text |-> agent_responses_[k].response]]

\* Line 63: the rubric and the transcript.
judge_prompt(agent_responses_) ==
    [rubric |-> "EVALUATION_RUBRIC", transcript |-> anonymized_text(agent_responses_)]

\* The rankings lists a judge's reply may carry; agent_i is written i.
\* <<0, 1, 2>> is also the list of the fallback dicts of query_model_json.
RankingLists == { <<>>, <<1, 0>>, <<0, 1, 2>> }

JudgeOutput(kind, has_rankings, rankings_ok, rankings, scores, fallback) ==
    [kind |-> kind, has_rankings |-> has_rankings, rankings_ok |-> rankings_ok,
     rankings |-> rankings, scores |-> scores, fallback |-> fallback]

\* What query_model_json can hand to stage 2 for one judge: an exception,
\* a JSON value that is no dict, one of its fallback dicts, or a dict from
\* the judge model: without rankings, with rankings that are no list of
\* strings, or with a rankings list and scores that are missing, a valid
\* mapping, or not a mapping of mappings of numbers.
JudgeOutputs ==
    { JudgeOutput("raise", FALSE, FALSE, <<>>, "missing", FALSE),
      JudgeOutput("nondict", FALSE, FALSE, <<>>, "missing", FALSE),
      JudgeOutput("dict", TRUE, TRUE, <<0, 1, 2>>, "empty", TRUE),
      JudgeOutput("dict", FALSE, FALSE, <<>>, "valid", FALSE),
      JudgeOutput("dict", TRUE, FALSE, <<>>, "valid", FALSE),
      JudgeOutput("dict", TRUE, TRUE, <<1, 0>>, "missing", FALSE),
      JudgeOutput("dict", TRUE, TRUE, <<1, 0>>, "invalid", FALSE) }
      \cup { JudgeOutput("dict", TRUE, TRUE, r, "valid", FALSE) : r \in RankingLists }

\* A scores mapping gives each agent one number for each of the five
\* criteria; the model writes the number once per agent.
reply_scores(n) == [j \in 0..(n - 1) |-> 9]
neutral_scores(n) == [j \in 0..(n - 1) |-> 5]
default_rankings(n) == [k \in 1..n |-> k - 1]

\* Mutant: a judge without usable output takes over the rankings that
\* the first judge's output carries.
judge_evaluation_copies_first_judge(i, output, n) ==
    IF output.kind = "dict" /\ output.has_rankings
    THEN IF output.rankings_ok /\ output.scores # "invalid"
         THEN [judge_id |-> i, model |-> JUDGE_MODELS[i + 1],
               rankings |-> output.rankings,
               scores |-> IF output.scores = "valid" THEN reply_scores(n) ELSE <<>>,
               rationale |-> "reply"]
         ELSE [judge_id |-> i, model |-> JUDGE_MODELS[i + 1],
               rankings |-> default_rankings(n),
               scores |-> <<>>,
               rationale |-> "Error processing judge response"]
    ELSE [judge_id |-> i, model |-> JUDGE_MODELS[i + 1],
          rankings |-> judge_outputs'[1].rankings,
          scores |-> neutral_scores(n),
          rationale |-> "Fallback ranking due to invalid JSON response"]

\* Lines 80-122, for judge i (0-based), its output and n agent responses.
judge_evaluation(i, output, n) ==
    IF output.kind = "dict" /\ output.has_rankings
    THEN IF output.rankings_ok /\ output.scores # "invalid"
         THEN [judge_id |-> i, model |-> JUDGE_MODELS[i + 1],
               rankings |-> output.rankings,
               scores |-> IF output.scores = "valid" THEN reply_scores(n) ELSE <<>>,
               rationale |-> "reply"]
         \* JudgeEvaluation(...) raises ValidationError: the except branch
         ELSE [judge_id |-> i, model |-> JUDGE_MODELS[i + 1],
               rankings |-> default_rankings(n),
               scores |-> <<>>,
               rationale |-> "Error processing judge response"]
    ELSE [judge_id |-> i, model |-> JUDGE_MODELS[i + 1],
          rankings |-> default_rankings(n),
          scores |-> neutral_scores(n),
          rationale |-> "Fallback ranking due to invalid JSON response"]

----------------------------------------------------------------------------
(* Stage 3: synthesizer.py:15-136, schemas/decision.py *)

\* Confidence is written in hundredths, so 0.5 is 50.
\* confidence=0.5 on the fallback path (synthesizer.py:107)
FALLBACK_CONFIDENCE == 50
\* synthesis_data.get("confidence", 0.5) (synthesizer.py:125)
DEFAULT_CONFIDENCE == 50

SynthOutput(kind, fallback, final_answer, confidence, risks, citations) ==
    [kind |-> kind, fallback |-> fallback, final_answer |-> final_answer,
     confidence |-> confidence, risks |-> risks, citations |-> citations]

\* What query_model_json can hand to stage 3: an exception, a JSON value
\* that is no dict, a fallback dict, or a dict from the synthesizer model.
\* A field that the dict lacks is written "missing" (confidence: -1).
\* risks "not_mappings" is a list whose items are no mappings (Risk(**r)
\* raises TypeError); the confidences 150 (1.5) and -20 (-0.2) are out of
\* the schema's range.
SynthOutputs ==
    { SynthOutput("raise", FALSE, "missing", -1, "missing", "missing"),
      SynthOutput("nondict", FALSE, "missing", -1, "missing", "missing"),
      SynthOutput("dict", TRUE, "Unable to generate synthesis", 30, "none", "none"),
      SynthOutput("dict", TRUE, "missing", -1, "missing", "missing") }
      \cup { SynthOutput("dict", FALSE, f, c, r, ci) :
                f \in {"missing", "answer_clean", "answer_kill", "answer_hack_racist"},
                c \in {-1, -20, 30, 150},
                r \in {"missing", "low", "high", "not_mappings"},
                ci \in {"missing", "valid"} }

Risk(category, severity) == [category |-> category, severity |-> severity]

\* Mutant: the risk of the fallback path attached on the normal path too.
risk_list_with_api_error(field) ==
    <<Risk("api_error", "medium")>>
      \o (CASE field = "low" -> <<Risk("bias", "low")>>
            [] field = "high" -> <<Risk("bias", "low"), Risk("safety", "high")>>
            [] OTHER -> <<>>)

\* [Risk(**r) for r in synthesis_data.get("risks", [])]
risk_list(field) ==
    CASE field = "low" -> <<Risk("bias", "low")>>
      [] field = "high" -> <<Risk("bias", "low"), Risk("safety", "high")>>
      [] OTHER -> <<>>

citation_list(field) ==
    IF field = "valid" THEN <<[source |-> 0, confidence |-> 90]>> ELSE <<>>

\* A text as the safety gate reads it: what stands before the body, and the
\* body.
Text(prefix, body) == [prefix |-> prefix, body |-> body]

\* len(text) of the texts of the model: "model_long" has 250 characters,
\* its first 200 are written "model_long[:200]", and every other text is
\* short.
text_len(text) ==
    CASE text = "model_long" -> 250
      [] text = "model_long[:200]" -> 200
      [] OTHER -> 30

\* Mutant: the whole response, not a slice of it.
first_200_whole(text) == text

\* response[:200]
first_200(text) == IF text_len(text) <= 200 THEN text ELSE "model_long[:200]"

\* Mutant: a schema without the bounds on confidence.
confidence_valid_unbounded(c) == TRUE

\* confidence: float = Field(ge=0.0, le=1.0), in hundredths.
confidence_valid(c) == c >= 0 /\ c <= 100

NoDecision ==
    [made |-> FALSE, path |-> "none", final_answer |-> Text("", ""), confidence |-> 0,
     risks |-> <<>>, citations |-> <<>>, audit_id |-> 0,
     agent_responses |-> <<>>, judge_evaluations |-> <<>>]

\* Lines 96-133: the DecisionObject, or the exception the stage ends with:
\* "AttributeError" and "TypeError" are no ValueError, pydantic's
\* "ValidationError" is one. uuid tells whether uuid.uuid4() was called.
stage3_result(data, responses_, evaluations, uuid) ==
    IF data.kind = "raise"
    THEN [error |-> "IndexError", uuid |-> FALSE, decision |-> NoDecision]
    ELSE IF data.kind = "nondict"
    \* synthesis_data.get: a list, a number or a string has no get
    THEN [error |-> "AttributeError", uuid |-> FALSE, decision |-> NoDecision]
    ELSE IF data.fallback
    THEN [error |-> "none", uuid |-> TRUE,
          decision |->
            [made |-> TRUE, path |-> "fallback",
             final_answer |-> Text("Based on the responses: ",
                                   first_200(responses_[1].response)),
             confidence |-> FALLBACK_CONFIDENCE,
             risks |-> <<Risk("api_error", "medium")>>,
             citations |-> <<>>,
             audit_id |-> uuid,
             agent_responses |-> responses_,
             judge_evaluations |-> evaluations]]
    ELSE IF data.risks = "not_mappings"
    THEN [error |-> "TypeError", uuid |-> FALSE, decision |-> NoDecision]
    ELSE IF ~confidence_valid(IF data.confidence = -1
                              THEN DEFAULT_CONFIDENCE ELSE data.confidence)
    THEN [error |-> "ValidationError", uuid |-> TRUE, decision |-> NoDecision]
    ELSE [error |-> "none", uuid |-> TRUE,
          decision |->
            [made |-> TRUE, path |-> "normal",
             final_answer |-> Text("", IF data.final_answer = "missing"
                                       THEN "No answer generated"
                                       ELSE data.final_answer),
             confidence |-> IF data.confidence = -1
                            THEN DEFAULT_CONFIDENCE ELSE data.confidence,
             risks |-> risk_list(data.risks),
             citations |-> citation_list(data.citations),
             audit_id |-> uuid,
             agent_responses |-> responses_,
             judge_evaluations |-> evaluations]]

----------------------------------------------------------------------------
(* The safety gate: safety/gate.py *)

\* The categories of UNSAFE_PATTERNS, in order (gate.py:9-13).
UNSAFE_PATTERNS == <<"violence", "illegal_activity", "discrimination">>

\* MIN_CONFIDENCE = 0.5 (gate.py:16), in hundredths
MIN_CONFIDENCE == 50

\* re.search(pattern, text, re.IGNORECASE) for the pattern of a category:
\* the texts of the model that hold one of its words.
pattern_found(category, text) ==
    \/ text.body = "answer_kill" /\ category = "violence"
    \/ text.body = "answer_hack_racist"
          /\ category \in {"illegal_activity", "discrimination"}

Note(type, count) == [type |-> type, count |-> count]

\* Mutant: a gate that stops at the first pattern that is found.
RECURSIVE pattern_violations_first_only(_, _)
pattern_violations_first_only(text, k) ==
    IF k > Len(UNSAFE_PATTERNS) THEN <<>>
    ELSE IF pattern_found(UNSAFE_PATTERNS[k], text)
         THEN <<Note(UNSAFE_PATTERNS[k], 1)>>
         ELSE pattern_violations_first_only(text, k + 1)

\* Check 1: one violation for each pattern that is found, in order.
RECURSIVE pattern_violations(_, _)
pattern_violations(text, k) ==
    IF k > Len(UNSAFE_PATTERNS) THEN <<>>
    ELSE (IF pattern_found(UNSAFE_PATTERNS[k], text)
          THEN <<Note(UNSAFE_PATTERNS[k], 1)>> ELSE <<>>)
            \o pattern_violations(text, k + 1)

\* Mutant: a gate that fails on warnings as well.
safety_passed_no_warnings(violations, warnings) ==
    Len(violations) = 0 /\ Len(warnings) = 0

\* passed = len(violations) == 0
safety_passed(violations, warnings) == Len(violations) = 0

\* Lines 30-82: what safety_check returns, or that it raised (rank1[0] and
\* rank2[0] raise IndexError on an empty rankings list).
safety_check(d) ==
    LET high_risks == SelectSeq(d.risks, LAMBDA r : r.severity = "high")
        violations ==
            pattern_violations(d.final_answer, 1)
              \o (IF Len(high_risks) > 0
                  THEN <<Note("high_risk_detected", Len(high_risks))>> ELSE <<>>)
        two == Len(d.judge_evaluations) >= 2
        rank1 == d.judge_evaluations[1].rankings
        rank2 == d.judge_evaluations[2].rankings
        warnings ==
            (IF d.confidence < MIN_CONFIDENCE
             THEN <<Note("low_confidence", d.confidence)>> ELSE <<>>)
              \o (IF two /\ rank1[1] # rank2[1]
                  THEN <<Note("judge_disagreement", 1)>> ELSE <<>>)
    IN  IF two /\ (rank1 = <<>> \/ rank2 = <<>>)
        THEN [raised |-> TRUE, passed |-> FALSE, violations |-> <<>>,
              warnings |-> <<>>, confidence |-> 0]
        ELSE [raised |-> FALSE,
              passed |-> safety_passed(violations, warnings),
              violations |-> violations,
              warnings |-> warnings,
              confidence |-> d.confidence]

NoSafetyResult ==
    [raised |-> FALSE, passed |-> FALSE, violations |-> <<>>, warnings |-> <<>>,
     confidence |-> -1]

----------------------------------------------------------------------------
(* The audit log: audit/logger.py *)

\* The columns of a row that the model keeps, and the run that wrote it.
audit_row(d, result, run) ==
    [audit_id |-> d.audit_id, confidence |-> d.confidence,
     safety_passed |-> result.passed, run |-> run]

\* audit_id is the PRIMARY KEY: INSERT raises IntegrityError on a second
\* row with the same audit_id.
insert_allowed(log, d) == \A k \in DOMAIN log : log[k].audit_id # d.audit_id

\* Mutant: a logger that records approved decisions only.
log_decision_passed_only(log, d, result, run) ==
    IF result.passed THEN Append(log, audit_row(d, result, run)) ELSE log

\* Lines 75-100: the table after INSERT and commit.
log_decision(log, d, result, run) == Append(log, audit_row(d, result, run))

\* Mutant: a logger that catches what the INSERT or the commit raises.
log_decision_swallows_errors(stored, log, d) == FALSE

\* log_decision has no try statement: when the row is not stored, what
\* execute or commit raised (sqlite3.Error) goes to its caller.
log_decision_raises(stored, log, d) == ~(stored /\ insert_allowed(log, d))

----------------------------------------------------------------------------
(* deliberate: main.py:75-181 *)

NoSynthesis == SynthOutput("none", FALSE, "missing", -1, "missing", "missing")

\* What the caller of one run gets: status "approved" or "rejected" with
\* code 200, or status "error" with the code of the HTTPException.
\* stage1 tells whether the run came to stage 1.
Response(run, status, code, audit_id, has_decision, stage1) ==
    [run |-> run, status |-> status, code |-> code, audit_id |-> audit_id,
     has_decision |-> has_decision, stage1 |-> stage1]

\* The except clauses of lines 168-181: a ValueError becomes a 400, every
\* other Exception (the HTTPException of line 100 among them) a 500.
error_code(exception) == IF exception = "ValidationError" THEN 400 ELSE 500

\* Mutant: an endpoint that rejects a decision with warnings too.
deliberate_status_warnings_reject(result) ==
    IF ~result.passed \/ Len(result.warnings) > 0 THEN "rejected" ELSE "approved"

\* Lines 140-166: if not safety_result["passed"]: rejected, else approved.
deliberate_status(result) == IF ~result.passed THEN "rejected" ELSE "approved"

PipelineInit ==
    /\ GENERATOR_MODELS \in GeneratorConfigs
    /\ pc = "idle"
    /\ runs = 0
    /\ question_ok = FALSE
    /\ gen_returned = <<>>
    /\ agent_responses = <<>>
    /\ judge_prompts = <<>>
    /\ judge_outputs = <<>>
    /\ judge_evaluations = <<>>
    /\ synthesis_data = NoSynthesis
    /\ decision = NoDecision
    /\ safety_result = NoSafetyResult
    /\ next_uuid = 1
    /\ audit_log = <<>>
    /\ responses = <<>>

\* The request is over with an HTTPException.
fails(run, exception, stage1) ==
    /\ responses' = Append(responses,
                           Response(run, "error", error_code(exception), 0, FALSE, stage1))
    /\ pc' = "idle"

\* A request arrives: lines 90-103. A question that fails the validation
\* raises HTTPException(400) inside the try statement.
deliberate_request ==
    /\ pc = "idle"
    /\ runs < MaxRuns
    /\ runs' = runs + 1
    /\ \E ok \in BOOLEAN :
          /\ question_ok' = ok
          /\ IF ok
             THEN pc' = "stage1" /\ UNCHANGED responses
             ELSE fails(runs + 1, "HTTPException", FALSE)
    /\ gen_returned' = <<>>
    /\ agent_responses' = <<>>
    /\ judge_prompts' = <<>>
    /\ judge_outputs' = <<>>
    /\ judge_evaluations' = <<>>
    /\ synthesis_data' = NoSynthesis
    /\ decision' = NoDecision
    /\ safety_result' = NoSafetyResult
    /\ UNCHANGED <<GENERATOR_MODELS, next_uuid, audit_log, qvars, jvars, avars, fvars>>

\* Line 107: stage 1, with what each generator's query_model call returned.
stage1_generate_answers ==
    /\ pc = "stage1"
    /\ \E returned \in [DOMAIN GENERATOR_MODELS -> GeneratorReturns] :
          /\ gen_returned' = returned
          /\ agent_responses' =
                stage1_agent_responses(GENERATOR_MODELS,
                                       query_models_parallel(GENERATOR_MODELS, returned))
    /\ pc' = "stage2"
    /\ UNCHANGED <<GENERATOR_MODELS, runs, question_ok, judge_prompts, judge_outputs,
                   judge_evaluations, synthesis_data, decision, safety_result,
                   next_uuid, audit_log, responses, qvars, jvars, avars, fvars>>

\* Lines 112-115: stage 2. The prompt is built first (lines 59-63) and
\* every judge's call gets it; then comes what each judge's
\* query_model_json call returned, which asyncio.gather hands back in the
\* order of the tasks, whatever the order of completion; gather passes on
\* an exception of a call.
stage2_judge_evaluation ==
    /\ pc = "stage2"
    /\ judge_prompts' = [k \in DOMAIN JUDGE_MODELS |-> judge_prompt(agent_responses)]
    /\ \E outputs \in [DOMAIN JUDGE_MODELS -> JudgeOutputs] :
          /\ judge_outputs' = outputs
          /\ IF \E k \in DOMAIN outputs : outputs[k].kind = "raise"
             THEN /\ fails(runs, "IndexError", TRUE)
                  /\ UNCHANGED judge_evaluations
             ELSE /\ judge_evaluations' =
                        [k \in DOMAIN outputs |->
                            judge_evaluation(k - 1, outputs[k], Len(agent_responses))]
                  /\ pc' = "stage3"
                  /\ UNCHANGED responses
    /\ gen_returned' = <<>>
    /\ UNCHANGED <<GENERATOR_MODELS, runs, question_ok, agent_responses, synthesis_data,
                   decision, safety_result, next_uuid, audit_log, qvars, jvars, avars, fvars>>

\* Lines 120-125: stage 3, with what the synthesizer's query_model_json
\* call returned.
stage3_synthesize_decision ==
    /\ pc = "stage3"
    /\ \E data \in SynthOutputs :
          LET r == stage3_result(data, agent_responses, judge_evaluations, next_uuid) IN
          /\ synthesis_data' = data
          /\ next_uuid' = IF r.uuid THEN next_uuid + 1 ELSE next_uuid
          /\ decision' = r.decision
          /\ IF r.error = "none"
             THEN pc' = "safety" /\ UNCHANGED responses
             ELSE fails(runs, r.error, TRUE)
    /\ judge_outputs' = <<>>
    /\ UNCHANGED <<GENERATOR_MODELS, runs, question_ok, gen_returned, agent_responses,
                   judge_prompts, judge_evaluations, safety_result, audit_log,
                   qvars, jvars, avars, fvars>>

\* Line 130: the safety gate.
run_safety_check ==
    /\ pc = "safety"
    /\ LET result == safety_check(decision) IN
          /\ safety_result' = result
          /\ IF result.raised
             THEN fails(runs, "IndexError", TRUE)
             ELSE pc' = "audit" /\ UNCHANGED responses
    /\ synthesis_data' = NoSynthesis
    /\ UNCHANGED <<GENERATOR_MODELS, runs, question_ok, gen_returned, agent_responses,
                   judge_prompts, judge_outputs, judge_evaluations, decision,
                   next_uuid, audit_log, qvars, jvars, avars, fvars>>

\* Line 134: the audit write. The INSERT or the commit may fail (a full
\* disk, a locked database, a second row with the key), and then
\* log_decision raises sqlite3.Error and no row is stored.
write_audit_log ==
    /\ pc = "audit"
    /\ \E stored \in BOOLEAN :
          /\ audit_log' = IF stored /\ insert_allowed(audit_log, decision)
                          THEN log_decision(audit_log, decision, safety_result, runs)
                          ELSE audit_log
          /\ IF log_decision_raises(stored, audit_log, decision)
             THEN fails(runs, "sqlite3.Error", TRUE)
             ELSE pc' = "respond" /\ UNCHANGED responses
    /\ UNCHANGED <<GENERATOR_MODELS, runs, question_ok, gen_returned, agent_responses,
                   judge_prompts, judge_outputs, judge_evaluations, synthesis_data,
                   decision, safety_result, next_uuid, qvars, jvars, avars, fvars>>

\* Lines 137-166: the response, rejected or approved.
deliberate_return ==
    /\ pc = "respond"
    /\ LET status == deliberate_status(safety_result) IN
          responses' = Append(responses,
                              Response(runs, status, 200, decision.audit_id,
                                       status = "approved", TRUE))
    /\ pc' = "idle"
    /\ UNCHANGED <<GENERATOR_MODELS, runs, question_ok, gen_returned, agent_responses,
                   judge_prompts, judge_outputs, judge_evaluations, synthesis_data,
                   decision, safety_result, next_uuid, audit_log, qvars, jvars, avars, fvars>>

\* No run of deliberate: the state of the other specifications.
PipelineIdle ==
    /\ GENERATOR_MODELS = <<>>
    /\ pc = "off"
    /\ runs = 0
    /\ question_ok = FALSE
    /\ gen_returned = <<>>
    /\ agent_responses = <<>>
    /\ judge_prompts = <<>>
    /\ judge_outputs = <<>>
    /\ judge_evaluations = <<>>
    /\ synthesis_data = NoSynthesis
    /\ decision = NoDecision
    /\ safety_result = NoSafetyResult
    /\ next_uuid = 1
    /\ audit_log = <<>>
    /\ responses = <<>>

----------------------------------------------------------------------------
(* The AuditLogger and the audit endpoints: logger.py:10-160, *)
(* main.py:187-273                                            *)

\* the most rows the table comes to hold
MaxRows == 2

\* The threads that run log_decision on the one AuditLogger: app.py:169-171
\* runs each request with asyncio.run in the thread of its handler.
Threads == 1..2

AuditIds == 1..MaxRows

\* What log_decision is called with: of the decision the audit_id, the
\* timestamp and the confidence (hundredths), of the safety result the
\* verdict. The decisions of the model are of two kinds: one of low
\* confidence that passed the gate (a warning only), and a confident one
\* that was rejected. Every decision has the processing time 1.
AuditRows ==
    { [audit_id |-> id, timestamp |-> ts, confidence |-> 30, safety_passed |-> TRUE] :
        id \in AuditIds, ts \in 1..2 }
      \cup
    { [audit_id |-> id, timestamp |-> ts, confidence |-> 50, safety_passed |-> FALSE] :
        id \in AuditIds, ts \in 1..2 }

\* No call: the value of a thread that is outside log_decision.
NoRow == [audit_id |-> 0, timestamp |-> 0, confidence |-> 0, safety_passed |-> FALSE]

\* safety_result["violations"] of the call: passed = len(violations) == 0
\* (gate.py:73), so a result that did not pass has a violation.
violations_of(row) ==
    IF row.safety_passed THEN <<>> ELSE <<[type |-> "high_risk_detected", count |-> 1]>>

\* Mutant: an encoder that writes the empty list for every value.
json_dumps_empty(value) == [json_text_of |-> <<>>]

\* json.dumps(value): the text of the value.
json_dumps(value) == [json_text_of |-> value]

\* json.loads(text) on the text of a column (main.py:204-213).
json_loads_column(text) == text.json_text_of

\* A bool bound to a column: SQLite stores the integer 1 or 0.
sql_bool(b) == IF b THEN 1 ELSE 0

\* Lines 75-96: the row that the INSERT writes: TEXT and REAL columns as
\* they are, the verdict as an integer, the violations as JSON text.
stored_row(row) ==
    [audit_id |-> row.audit_id, timestamp |-> row.timestamp,
     confidence |-> row.confidence,
     safety_passed |-> sql_bool(row.safety_passed),
     safety_violations |-> json_dumps(violations_of(row))]

\* main.py:204-213: the row with its JSON columns parsed.
decision_parsed(stored) ==
    [stored EXCEPT !.safety_violations = json_loads_column(@)]

\* What a statement on self.conn reads: the committed rows and the rows of
\* the connection's own open transaction.
connection_view(store, pending) == store \o pending

\* ORDER BY timestamp DESC; rows with one timestamp keep their rowid order.
RECURSIVE order_by_timestamp_desc(_)
order_by_timestamp_desc(rows) ==
    IF rows = <<>> THEN <<>>
    ELSE LET h == Head(rows)
             rest == order_by_timestamp_desc(Tail(rows))
             k == Cardinality({i \in DOMAIN rest : rest[i].timestamp > h.timestamp})
         IN  SubSeq(rest, 1, k) \o <<h>> \o SubSeq(rest, k + 1, Len(rest))

\* LIMIT ?: a negative limit is no limit (SQLite).
sql_limit(rows, limit) ==
    IF limit < 0 THEN rows ELSE SubSeq(rows, 1, Min(limit, Len(rows)))

\* main.py:237-238: if limit > 100: limit = 100
capped_limit(limit) == IF limit > 100 THEN 100 ELSE limit

\* logger.py:115-122
get_recent_decisions(view, limit) == sql_limit(order_by_timestamp_desc(view), limit)

\* logger.py:102-113: the row, or None.
get_decision(view, audit_id) ==
    SelectSeq(view, LAMBDA r : r.audit_id = audit_id)

RECURSIVE sum_confidence(_)
sum_confidence(rows) ==
    IF rows = <<>> THEN 0 ELSE Head(rows).confidence + sum_confidence(Tail(rows))

\* logger.py:124-155: the dict for an empty table (lines 139-144) and the
\* dict for a table with rows (lines 148-155). pass_rate and
\* avg_confidence are in hundredths.
get_statistics(view) ==
    LET total == Len(view)
        passed == Len(SelectSeq(view, LAMBDA r : r.safety_passed = 1))
    IN  IF total = 0
        THEN [total_decisions |-> 0, avg_confidence |-> 0, pass_rate |-> 0,
              avg_processing_time |-> 0]
        ELSE [total_decisions |-> total,
              passed_decisions |-> passed,
              rejected_decisions |-> total - passed,
              pass_rate |-> (100 * passed) \div total,
              avg_confidence |-> sum_confidence(view) \div total,
              avg_processing_time_seconds |-> 1]

\* A segment of a request path below /api/audit: its text, and its number
\* when it is one.
Seg(text, num) == [text |-> text, num |-> num]

\* The GET routes below /api/audit in the order of their declaration
\* (main.py:187, 226, 260), each with its handler.
AuditRoutes ==
    << [handler |-> "get_audit", pattern |-> <<"{audit_id}">>],
       [handler |-> "get_recent_decisions", pattern |-> <<"recent", "{limit}">>],
       [handler |-> "get_audit_stats", pattern |-> <<"stats">>] >>

\* A path parameter matches any one segment, a literal its own text.
route_matches(pattern, path) ==
    /\ Len(pattern) = Len(path)
    /\ \A i \in DOMAIN pattern :
          \/ pattern[i] \in {"{audit_id}", "{limit}"}
          \/ pattern[i] = path[i].text

\* The router takes the first route that matches.
route_handler(path) ==
    LET M == {k \in DOMAIN AuditRoutes : route_matches(AuditRoutes[k].pattern, path)}
    IN  AuditRoutes[CHOOSE k \in M : \A m \in M : k <= m].handler

\* The limits that recent-list requests are made with.
Limits == {-1, 0, 1, 150}

\* The requests: the statistics, the recent list, one decision.
AuditRequests ==
    {<<Seg("stats", 0)>>}
      \cup {<<Seg("recent", 0), Seg("int", n)>> : n \in Limits}
      \cup {<<Seg("id", k)>> : k \in AuditIds}

\* What a call or request gave: the operation or handler that ran, its
\* argument (the row of a log_decision, the segment or the limit of a
\* request), how it ended, the rows it returned or, for log_decision, found
\* with the audit_id of its row, and the statistics dict.
Reply(op, arg, outcome, rows, stats) ==
    [op |-> op, arg |-> arg, outcome |-> outcome, rows |-> rows, stats |-> stats]

NoReply == Reply("none", 0, "none", <<>>, <<>>)

\* The handlers of main.py:187-273 on the view of the connection.
audit_handler(path, view) ==
    LET h == route_handler(path) IN
    CASE h = "get_audit" ->
            \* the segment is the audit_id, whatever its text
            LET found == IF path[1].text = "id"
                         THEN get_decision(view, path[1].num) ELSE <<>>
            IN  Reply(h, path[1], IF found = <<>> THEN "not_found" ELSE "found",
                      [k \in DOMAIN found |-> decision_parsed(found[k])], <<>>)
      [] h = "get_recent_decisions" ->
            Reply(h, path[2].num, "ok",
                  get_recent_decisions(view, capped_limit(path[2].num)), <<>>)
      [] OTHER -> Reply(h, 0, "ok", <<>>, get_statistics(view))

AuditInit ==
    /\ aStore = <<>>
    /\ aPending = <<>>
    /\ aThread = [t \in Threads |-> NoRow]
    /\ aReply = NoReply

\* No AuditLogger of this kind: the state of the other specifications.
AuditIdle ==
    /\ aStore = <<>>
    /\ aPending = <<>>
    /\ aThread = <<>>
    /\ aReply = NoReply

\* log_decision, lines 75-96, in thread t: the INSERT. A second row with
\* the audit_id raises IntegrityError; the statement may fail otherwise
\* (sqlite3.OperationalError); else the row is in the open transaction of
\* the connection.
log_decision_insert(t) ==
    /\ aThread[t] = NoRow
    /\ \E row \in AuditRows, ok \in BOOLEAN :
          LET view == connection_view(aStore, aPending) IN
          IF ~insert_allowed(view, row)
          THEN /\ aReply' = Reply("log_decision", row, "IntegrityError",
                                  get_decision(view, row.audit_id), <<>>)
               /\ UNCHANGED <<aStore, aPending, aThread>>
          ELSE IF ~ok
          THEN /\ aReply' = Reply("log_decision", row, "OperationalError",
                                  <<>>, <<>>)
               /\ UNCHANGED <<aStore, aPending, aThread>>
          ELSE /\ aPending' = Append(aPending, stored_row(row))
               /\ aThread' = [aThread EXCEPT ![t] = row]
               /\ UNCHANGED <<aStore, aReply>>
    /\ UNCHANGED <<qvars, jvars, pvars, fvars>>

\* log_decision, lines 98-100, in thread t: self.conn.commit() ends the
\* transaction of the connection, with every row that any thread inserted
\* in it, and the audit_id is returned; or the commit fails and raises,
\* and the transaction stays open.
log_decision_commit(t) ==
    /\ aThread[t] # NoRow
    /\ \E ok \in BOOLEAN :
          IF ok
          THEN /\ aStore' = aStore \o aPending
               /\ aPending' = <<>>
               /\ aReply' = Reply("log_decision", aThread[t],
                                  "returned", <<>>, <<>>)
          ELSE /\ aReply' = Reply("log_decision", aThread[t],
                                  "OperationalError", <<>>, <<>>)
               /\ UNCHANGED <<aStore, aPending>>
    /\ aThread' = [aThread EXCEPT ![t] = NoRow]
    /\ UNCHANGED <<qvars, jvars, pvars, fvars>>

\* A GET request below /api/audit, answered on the connection.
audit_request ==
    /\ \E path \in AuditRequests :
          aReply' = audit_handler(path, connection_view(aStore, aPending))
    /\ UNCHANGED <<aStore, aPending, aThread, qvars, jvars, pvars, fvars>>

----------------------------------------------------------------------------
(* The fan-outs of one run: main.py:105-134, openrouter.py:103-125, *)
(* evaluator.py:66-76, synthesizer.py:86-90                          *)

\* max_retries: int = 3 (openrouter.py:13 and 134); no caller passes another.
DEFAULT_MAX_RETRIES == 3

Generators == {"gen0", "gen1", "gen2"}
Judges == {"judge0", "judge1"}
Chairman == "chairman"
Tasks == Generators \cup Judges \cup {Chairman}

\* The outcomes of a request that the tasks of a fan-out meet.
FanoutOutcomes == {"ok", "http404", "http429", "timeout"}

Task(state, attempt, result, last) ==
    [state |-> state, attempt |-> attempt, result |-> result, last |-> last]

\* A call that has not been made.
IdleTask == Task("idle", 0, "pending", "none")

\* asyncio.gather(*tasks) starts every call; each sends its first request
\* with attempt = 0.
StartedTask == Task("request", 0, "pending", "none")

\* Mutant: one attempt counter for all the calls.
attempt_of_all_calls(t, tasks) ==
    LET RECURSIVE total(_)
        total(S) == IF S = {} THEN 0
                    ELSE LET u == CHOOSE u \in S : TRUE
                         IN  tasks[u].attempt + total(S \ {u})
    IN  total(Tasks)

\* `for attempt in range(max_retries)`: the loop variable is a local of
\* the call.
attempt_of(t, tasks) == tasks[t].attempt

\* What the call returns to the gather when query_model comes to an end:
\* a generator's call is query_model itself; a judge's or the chairman's is
\* query_model_json, which returns a dict or raises on a reply and returns
\* the fallback dict on None.
call_result(t, act, parsed) ==
    IF t \in Generators
    THEN (IF act = "return_reply" THEN "reply" ELSE "None")
    ELSE IF act = "return_reply"
         THEN (IF parsed THEN "dict" ELSE "raised")
         ELSE "fallback"

\* Mutant: a wait that ends with the first call that is done.
gather_returned_first_completed(tasks, S) ==
    \E t \in S : tasks[t].state = "done" /\ tasks[t].result # "raised"

\* await asyncio.gather(*tasks) returns when every call has returned.
gather_returned(tasks, S) ==
    \A t \in S : tasks[t].state = "done" /\ tasks[t].result # "raised"

\* await asyncio.gather(*tasks) raises as soon as one call has raised; the
\* other calls are not cancelled.
gather_raised(tasks, S) ==
    \E t \in S : tasks[t].state = "done" /\ tasks[t].result = "raised"

FanoutInit ==
    /\ fStage = "start"
    /\ fTasks = [t \in Tasks |-> IdleTask]
    /\ fDone = {}

\* No run of this kind: the state of the other specifications.
FanoutIdle ==
    /\ fStage = "idle"
    /\ fTasks = <<>>
    /\ fDone = {}

\* main.py:107 to openrouter.py:122: stage 1 starts the generators' calls.
deliberate_awaits_stage1 ==
    /\ fStage = "start"
    /\ fStage' = "stage1"
    /\ fTasks' = [t \in Tasks |-> IF t \in Generators THEN StartedTask ELSE fTasks[t]]
    /\ UNCHANGED <<fDone, qvars, jvars, pvars, avars>>

\* The request of a call comes to an end (openrouter.py:38-96): the call
\* returns, or it goes to sleep before its next attempt. When the call is
\* done its locals are gone.
task_attempt(t) ==
    /\ fTasks[t].state = "request"
    /\ \E o \in FanoutOutcomes, parsed \in BOOLEAN :
          LET b == loop_body(o, attempt_of(t, fTasks), DEFAULT_MAX_RETRIES) IN
          fTasks' = [fTasks EXCEPT ![t] =
                        IF b.act = "continue"
                        THEN Task("sleep", @.attempt, "pending", "none")
                        ELSE Task("done", 0, call_result(t, b.act, parsed), o)]
    /\ UNCHANGED <<fStage, fDone, qvars, jvars, pvars, avars>>

\* asyncio.sleep is over: `continue`, the next iteration of the loop.
task_retry(t) ==
    /\ fTasks[t].state = "sleep"
    /\ fTasks' = [fTasks EXCEPT ![t] = Task("request", @.attempt + 1, "pending", "none")]
    /\ UNCHANGED <<fStage, fDone, qvars, jvars, pvars, avars>>

\* openrouter.py:122-125, main.py:112, evaluator.py:67-76: the gather of
\* stage 1 returns, stage 1 returns, and stage 2 starts the judges' calls.
deliberate_awaits_stage2 ==
    /\ fStage = "stage1"
    /\ gather_returned(fTasks, Generators)
    /\ fStage' = "stage2"
    /\ fTasks' = [t \in Tasks |-> IF t \in Judges THEN StartedTask ELSE fTasks[t]]
    /\ UNCHANGED <<fDone, qvars, jvars, pvars, avars>>

\* evaluator.py:76, main.py:120, synthesizer.py:86: the gather of stage 2
\* returns, stage 2 returns, and stage 3 makes the chairman's call.
deliberate_awaits_stage3 ==
    /\ fStage = "stage2"
    /\ gather_returned(fTasks, Judges)
    /\ fStage' = "stage3"
    /\ fTasks' = [fTasks EXCEPT ![Chairman] = StartedTask]
    /\ UNCHANGED <<fDone, qvars, jvars, pvars, avars>>

\* evaluator.py:76: the gather of stage 2 raises what a judge's call
\* raised, and deliberate ends with an error (main.py:173-181).
stage2_gather_raises ==
    /\ fStage = "stage2"
    /\ gather_raised(fTasks, Judges)
    /\ fStage' = "error"
    /\ UNCHANGED <<fTasks, fDone, qvars, jvars, pvars, avars>>

\* synthesizer.py:86-133: the chairman's call returns and stage 3 builds
\* the decision, or the call or the DecisionObject raises.
stage3_returns ==
    /\ fStage = "stage3"
    /\ fTasks[Chairman].state = "done"
    /\ \E valid \in BOOLEAN :
          fStage' = IF fTasks[Chairman].result # "raised" /\ valid
                    THEN "safety" ELSE "error"
    /\ UNCHANGED <<fTasks, fDone, qvars, jvars, pvars, avars>>

\* main.py:130: the safety gate returns or raises.
deliberate_awaits_safety_check ==
    /\ fStage = "safety"
    /\ fDone' = fDone \cup {"safety_check"}
    /\ \E returned \in BOOLEAN : fStage' = IF returned THEN "audit" ELSE "error"
    /\ UNCHANGED <<fTasks, qvars, jvars, pvars, avars>>

\* main.py:134: the audit write returns or raises.
deliberate_awaits_log_decision ==
    /\ fStage = "audit"
    /\ fDone' = fDone \cup {"log_decision"}
    /\ \E returned \in BOOLEAN : fStage' = IF returned THEN "respond" ELSE "error"
    /\ UNCHANGED <<fTasks, qvars, jvars, pvars, avars>>

----------------------------------------------------------------------------
(* The specifications *)

InitQuery == QueryInit /\ JsonIdle /\ PipelineIdle /\ AuditIdle /\ FanoutIdle

NextQuery ==
    \/ query_model_attempt
    \/ query_model_exhausted
    \/ query_model_call

SpecQuery == InitQuery /\ [][NextQuery]_vars

InitJson == JsonInit /\ QueryIdle /\ PipelineIdle /\ AuditIdle /\ FanoutIdle

NextJson == query_model_json

SpecJson == InitJson /\ [][NextJson]_vars

Init == PipelineInit /\ QueryIdle /\ JsonIdle /\ AuditIdle /\ FanoutIdle

Next ==
    \/ deliberate_request
    \/ stage1_generate_answers
    \/ stage2_judge_evaluation
    \/ stage3_synthesize_decision
    \/ run_safety_check
    \/ write_audit_log
    \/ deliberate_return

Spec == Init /\ [][Next]_vars

InitAudit == AuditInit /\ QueryIdle /\ JsonIdle /\ PipelineIdle /\ FanoutIdle

NextAudit ==
    \/ \E t \in Threads : log_decision_insert(t)
    \/ \E t \in Threads : log_decision_commit(t)
    \/ audit_request

SpecAudit == InitAudit /\ [][NextAudit]_vars

InitFanout == FanoutInit /\ QueryIdle /\ JsonIdle /\ PipelineIdle /\ AuditIdle

NextFanout ==
    \/ deliberate_awaits_stage1
    \/ \E t \in Tasks : task_attempt(t)
    \/ \E t \in Tasks : task_retry(t)
    \/ deliberate_awaits_stage2
    \/ deliberate_awaits_stage3
    \/ stage2_gather_raises
    \/ stage3_returns
    \/ deliberate_awaits_safety_check
    \/ deliberate_awaits_log_decision

SpecFanout == InitFanout /\ [][NextFanout]_vars

----------------------------------------------------------------------------
(* Claims about query_model, checked under SpecQuery *)

Failures == Outcomes \ {"ok", "ok_nocontent"}

\* C5: query_model never lets a fault reach its caller: whatever the
\* requests come to and whatever max_retries >= 0 is, the call ends with a
\* reply mapping or with None, never with an exception, and it ends with
\* None when every attempt failed.
C5_NoFaultReachesCaller ==
    /\ qResult # "raised"
    /\ qPc = "done" => qResult \in {"reply", "None"}
    /\ (qPc = "done" /\ \A i \in DOMAIN qLog : qLog[i].cls \in Failures)
          => qResult = "None"

\* A call that used up its attempts on a malformed body, a connection error
\* and more, and returned None.
C5_Witness ==
    /\ qPc = "done"
    /\ qResult = "None"
    /\ qMax >= 3
    /\ Len(qLog) = qMax
    /\ \E i \in DOMAIN qLog : qLog[i].cls = "bad_body"
    /\ \E i \in DOMAIN qLog : qLog[i].cls = "connect_error"

\* authorization (401, 403), billing (402), unknown model identifier (404)
NonRetryable == {"http401", "http402", "http403", "http404"}

\* C8: an upstream error of a non-retryable class ends the call at once:
\* the request that met it is the last one, no delay follows it, and the
\* call returns None.
C8_NonRetryableEndsCall ==
    \A i \in DOMAIN qLog :
        qLog[i].cls \in NonRetryable
            => /\ i = Len(qLog)
               /\ qLog[i].delay = 0
               /\ qPc = "done"
               /\ qResult = "None"

\* timeout and the generic transient failures
FixedDelayClasses == {"timeout", "connect_error", "bad_body", "http500"}

\* C9: a 429 on attempt k that is not the last attempt is followed by a
\* delay of 2^k seconds, so that the delays of consecutive rate-limited
\* attempts double; a timeout or generic transient failure that is not the
\* last attempt is followed by a delay of 1 second; the delay is a function
\* of the attempt's index and failure class.
C9_RetryDelays ==
    /\ \A i \in DOMAIN qLog :
          qLog[i].attempt < qMax - 1 =>
              /\ qLog[i].cls = "http429" => qLog[i].delay = 2 ^ qLog[i].attempt
              /\ qLog[i].cls \in FixedDelayClasses => qLog[i].delay = 1
    /\ \A i \in DOMAIN qLog :
          (/\ i + 1 \in DOMAIN qLog
           /\ qLog[i].cls = "http429" /\ qLog[i + 1].cls = "http429"
           /\ qLog[i + 1].attempt < qMax - 1)
              => qLog[i + 1].delay = 2 * qLog[i].delay
    /\ \A i \in DOMAIN qLog : qLog[i].attempt = i - 1

\* Three rate-limited attempts in a row, followed by delays of 1, 2 and 4
\* seconds, and then a timeout followed by its delay of 1 second.
C9_Witness ==
    /\ Len(qLog) >= 4
    /\ \A i \in 1..3 : qLog[i].cls = "http429" /\ qLog[i].delay = 2 ^ (i - 1)
    /\ qLog[3].delay = 4
    /\ qLog[4].cls = "timeout" /\ qLog[4].delay = 1

\* C33: a call sends at most max_retries requests: exactly max_retries when
\* every attempt failed with an error that can be retried, exactly one when
\* the first attempt succeeded or failed with a non-retryable error; and no
\* delay follows the last attempt of a call that has returned.
C33_BoundedRequests ==
    /\ Len(qLog) <= qMax
    /\ (qPc = "done" /\ \A i \in DOMAIN qLog : qLog[i].cls \in Failures \ NonRetryable)
          => Len(qLog) = qMax
    /\ (qLog # <<>> /\ qLog[1].cls \in {"ok", "ok_nocontent"} \cup NonRetryable)
          => Len(qLog) = 1
    /\ (qPc = "done" /\ qLog # <<>>) => qLog[Len(qLog)].delay = 0

----------------------------------------------------------------------------
(* Claims about query_model_json, checked under SpecJson *)

\* The text inside the first fenced block: what lies between the first
\* code fence and the next one.
fence_positions(text) == {i \in 1..Len(text) : text[i] = "F"}

has_fenced_block(text) == Cardinality(fence_positions(text)) >= 2

fenced_block(text) ==
    LET P == fence_positions(text)
        a == CHOOSE i \in P : \A k \in P : i <= k
        b == CHOOSE i \in P \ {a} : \A k \in P \ {a} : i <= k
    IN  SubSeq(text, a + 1, b - 1)

\* The recovery in strict precedence order: (a) the whole content, (b) the
\* fenced block, (c) the first balanced-brace object of the pattern scan,
\* (d) the fallback object.
recovery_in_order(text) ==
    IF json_loads(text).ok
    THEN [kind |-> "json", val |-> json_loads(text).val]
    ELSE IF has_fenced_block(text) /\ json_loads(fenced_block(text)).ok
    THEN [kind |-> "json", val |-> json_loads(fenced_block(text)).val]
    ELSE IF brace_search(text).found /\ json_loads(brace_search(text).group0).ok
    THEN [kind |-> "json", val |-> json_loads(brace_search(text).group0).val]
    ELSE [kind |-> "fallback", val |-> <<>>]

\* C10: query_model_json recovers the structured object from a textual
\* reply in strict precedence order: direct parse, else the JSON of the
\* fenced block, else the first balanced-brace object, else the fallback.
C10_RecoveryPrecedence ==
    (jPc = "done" /\ jReply.resp = "reply" /\ jReply.ctype = "str")
        => /\ jResult.kind = recovery_in_order(jReply.text).kind
           /\ jResult.val = recovery_in_order(jReply.text).val

\* A reply of explanatory prose and one fenced block that holds a JSON
\* object: exactly two code fences, words and white space outside them (a
\* word at least), and between them one JSON object of any nesting depth.
prose_and_fenced_object(text) ==
    /\ Cardinality(fence_positions(text)) = 2
    /\ LET P == fence_positions(text)
           a == CHOOSE i \in P : \A k \in P : i <= k
           b == CHOOSE i \in P : \A k \in P : k <= i
       IN  /\ \A i \in 1..Len(text) : (i < a \/ i > b) => text[i] \in {"w", "s"}
           /\ \E i \in 1..Len(text) : (i < a \/ i > b) /\ text[i] = "w"
    /\ json_loads(fenced_block(text)).ok
    /\ json_loads(fenced_block(text)).val[1] = "{"

\* C11: for a reply of explanatory prose plus one fenced block that holds a
\* valid JSON object, whatever its nesting depth, query_model_json returns
\* exactly that object: no fallback, no exception, and no sub-object of it.
C11_FencedObjectReturned ==
    (jPc = "done" /\ jReply.resp = "reply" /\ jReply.ctype = "str"
        /\ prose_and_fenced_object(jReply.text))
        => /\ jResult.kind = "json"
           /\ jResult.val = json_loads(fenced_block(jReply.text)).val

\* C12: query_model_json returns the fallback-tagged object directly, from
\* the return statement of the case, when query_model gave None, when the
\* reply's content is null, and when the reply's content is the empty
\* string.
C12_NoReplyGivesFallback ==
    jPc = "done" =>
        /\ jReply.resp = "None" => jResult = Returned("fallback", "none_response", <<>>)
        /\ (jReply.resp = "reply" /\ jReply.ctype = "none")
              => jResult = Returned("fallback", "none_content", <<>>)
        /\ (jReply.resp = "reply" /\ jReply.ctype = "str"
                /\ strip_space(jReply.text) = <<>>)
              => jResult = Returned("fallback", "parse_failed", <<>>)
        /\ jResult.kind = "fallback" => fallback_dict(jResult.by).fallback

\* The empty string as content, answered with the placeholder of line 232.
C12_Witness ==
    /\ jPc = "done"
    /\ jReply.resp = "reply" /\ jReply.ctype = "str" /\ jReply.text = <<>>
    /\ jResult.kind = "fallback"
    /\ fallback_dict(jResult.by).fallback

\* C31: query_model_json never raises, and what it returns is a mapping: a
\* parsed value is a JSON object, also for a content that is a JSON value
\* of another type and for a content with a run of code fences.
C31_AlwaysReturnsMapping ==
    jPc = "done" =>
        /\ jResult.kind # "raise"
        /\ jResult.kind = "json" => jResult.val[1] = "{"

----------------------------------------------------------------------------
(* Claims about deliberate and its stages, checked under Spec *)

Answered == {k \in DOMAIN responses : responses[k].status \in {"approved", "rejected"}}
rows_with_id(id) == {j \in DOMAIN audit_log : audit_log[j].audit_id = id}
rows_of_run(run) == {j \in DOMAIN audit_log : audit_log[j].run = run}

\* C1: every run that returned "approved" or "rejected" has exactly one row
\* in audit_log with the audit_id of its response, the row is there before
\* the response is returned, no two such runs share an audit_id, and the
\* row of a rejected run has safety_passed = false.
C1_OneRowPerAnsweredRun ==
    /\ \A k \in Answered :
          /\ Cardinality(rows_with_id(responses[k].audit_id)) = 1
          /\ rows_with_id(responses[k].audit_id) = rows_of_run(responses[k].run)
          /\ responses[k].status = "rejected"
                => \A j \in rows_with_id(responses[k].audit_id) : ~audit_log[j].safety_passed
    /\ \A k1, k2 \in Answered :
          k1 # k2 => responses[k1].audit_id # responses[k2].audit_id
    /\ pc = "respond" => Cardinality(rows_with_id(decision.audit_id)) = 1

\* Two answered runs, the first rejected and the second approved, and
\* their two rows.
C1_Witness ==
    /\ Len(responses) = 2
    /\ responses[1].status = "rejected"
    /\ responses[2].status = "approved"
    /\ Len(audit_log) = 2
    /\ ~audit_log[1].safety_passed
    /\ audit_log[2].safety_passed

\* C2: every run that passed input validation and started stage 1 ends
\* with exactly one audit record, whether it ends approved, rejected or in
\* an internal error.
C2_OneRowPerStartedRun ==
    \A k \in DOMAIN responses :
        responses[k].stage1 => Cardinality(rows_of_run(responses[k].run)) = 1

\* The run that the state shows is over, and its response.
LastDone == pc = "idle" /\ runs > 0 /\ Len(responses) = runs
last_response == responses[Len(responses)]
SafetyReturned == safety_result # NoSafetyResult /\ ~safety_result.raised

has_high_risk(d) == \E k \in DOMAIN d.risks : d.risks[k].severity = "high"
has_unsafe_pattern(d) ==
    \E k \in DOMAIN UNSAFE_PATTERNS : pattern_found(UNSAFE_PATTERNS[k], d.final_answer)

\* C3 as stated: deliberate returns "rejected" exactly when safety_check
\* returned passed = false, and "approved" exactly when it returned
\* passed = true.
C3_StatusExactlyWhenGate ==
    (LastDone /\ SafetyReturned)
        => /\ last_response.status = "rejected" <=> ~safety_result.passed
           /\ last_response.status = "approved" <=> safety_result.passed

\* C3 as amended: a run is rejected only if safety_check returned
\* passed = false and approved (with the decision attached) only if it
\* returned passed = true; when the audit row of the run was stored, the
\* status is "rejected" exactly when passed = false and "approved" exactly
\* when passed = true; a rejection always has an unsafe pattern in the
\* final answer or a risk of severity high behind it, and the fallback
\* path of stage 3 adds no such risk.
C3_StatusFollowsGate ==
    /\ LastDone =>
          /\ last_response.status = "rejected"
                => SafetyReturned /\ ~safety_result.passed
          /\ last_response.status = "approved"
                => SafetyReturned /\ safety_result.passed /\ last_response.has_decision
          /\ (SafetyReturned /\ rows_of_run(runs) # {})
                => /\ last_response.status = "rejected" <=> ~safety_result.passed
                   /\ last_response.status = "approved" <=> safety_result.passed
          /\ last_response.status = "rejected"
                => has_unsafe_pattern(decision) \/ has_high_risk(decision)
    /\ decision.path = "fallback" => ~has_high_risk(decision)

\* A run whose judges and synthesizer all gave placeholders, approved.
C3_Witness ==
    /\ LastDone
    /\ last_response.status = "approved"
    /\ decision.path = "fallback"
    /\ \A k \in DOMAIN judge_evaluations : judge_evaluations[k].rationale # "reply"

\* C4: in every result of safety_check, passed is true if and only if the
\* list of violations is empty, whatever the warnings are.
C4_PassedIffNoViolations ==
    SafetyReturned => (safety_result.passed <=> Len(safety_result.violations) = 0)

\* A result with two warnings (low confidence, judge disagreement) and no
\* violation, passed.
C4_Witness ==
    /\ SafetyReturned
    /\ safety_result.passed
    /\ Len(safety_result.warnings) = 2
    /\ Len(safety_result.violations) = 0

\* The evaluation that stage 2 substitutes for a judge without usable
\* output (the else branch of line 91).
is_placeholder_evaluation(e) ==
    e.rationale = "Fallback ranking due to invalid JSON response"

\* C13: every consumer of query_model_json tells a degraded placeholder
\* from real output by the tag fallback = true: stage 2 gives a judge whose
\* output carries the tag the placeholder evaluation and never reads the
\* tagged object's other fields as the judge's verdict, and stage 3 takes
\* its fallback path exactly when the synthesizer's output carries the tag.
C13_TagDecidesBranch ==
    /\ pc = "stage3" =>
          \A k \in DOMAIN judge_outputs :
              judge_outputs[k].fallback
                  => is_placeholder_evaluation(judge_evaluations[k])
    /\ pc = "safety" => (decision.path = "fallback" <=> synthesis_data.fallback)

\* C14: a judge whose output is the fallback-tagged object, or has no
\* rankings field, or has rankings that are no list of agent identities,
\* gets rankings agent_0 .. agent_{N-1} in order and the neutral score 5
\* for every criterion of every one of the N agents; scores is not empty.
C14_DefaultEvaluation ==
    pc = "stage3" =>
        \A k \in DOMAIN judge_outputs :
            LET o == judge_outputs[k]
                e == judge_evaluations[k]
                n == Len(agent_responses)
            IN  (o.fallback \/ ~o.has_rankings \/ ~o.rankings_ok)
                    => /\ e.rankings = default_rankings(n)
                       /\ e.scores = neutral_scores(n)
                       /\ e.scores # <<>>

is_permutation(rankings, n) ==
    /\ Len(rankings) = n
    /\ Range(rankings) = 0..(n - 1)

\* C15: in every Decision of a run with N agent responses, the rankings of
\* each JudgeEvaluation is a permutation of agent_0 .. agent_{N-1},
\* whatever the judge model returned and whatever N is.
C15_RankingsArePermutations ==
    decision.made =>
        \A k \in DOMAIN decision.judge_evaluations :
            is_permutation(decision.judge_evaluations[k].rankings,
                           Len(decision.agent_responses))

\* C16: the transcript that stage 2 sends to the judges labels each
\* response by its position only (letter i and agent_i for the i-th entry)
\* and holds no generator model identifier, so that runs that differ only
\* in the configured identifiers send the same transcript.
C16_TranscriptHidesModels ==
    \A k \in DOMAIN judge_prompts :
        \A i \in DOMAIN judge_prompts[k].transcript :
            LET entry == judge_prompts[k].transcript[i]
            IN  /\ entry.letter = i - 1
                /\ entry.agent = i - 1
                /\ entry.text \notin Range(GENERATOR_MODELS)

\* What the evaluation of a judge is when it is read off the judge's own
\* output and the number of transcript entries alone.
own_reply_verdict(o, n) ==
    IF o.kind = "dict" /\ o.has_rankings /\ o.rankings_ok /\ o.scores # "invalid"
    THEN [rankings |-> o.rankings,
          scores |-> IF o.scores = "valid" THEN [j \in 0..(n - 1) |-> 9] ELSE <<>>]
    ELSE [rankings |-> [j \in 1..n |-> j - 1],
          scores |-> IF o.kind = "dict" /\ o.has_rankings
                     THEN <<>> ELSE [j \in 0..(n - 1) |-> 5]]

is_excerpt_of(e, text) ==
    /\ text_len(e) <= 200
    /\ \/ e = text
       \/ text_len(text) > 200 /\ text_len(e) = 200 /\ e = "model_long[:200]"
                                /\ text = "model_long"

\* C18: when the synthesizer's call yields the fallback-tagged object,
\* stage 3 still returns a Decision, on its fallback path: confidence is
\* the fixed fallback constant, risks is one Risk of category "api_error"
\* and severity "medium", citations is empty, and the final answer is built
\* on an excerpt of at most 200 characters of agent_0's response; no field
\* is read from the fallback object.
C18_FallbackDecision ==
    /\ synthesis_data.fallback => (pc = "safety" /\ decision.path = "fallback")
    /\ decision.path = "fallback" =>
          /\ decision.made
          /\ decision.confidence = FALLBACK_CONFIDENCE
          /\ decision.risks = <<[category |-> "api_error", severity |-> "medium"]>>
          /\ decision.citations = <<>>
          /\ is_excerpt_of(decision.final_answer.body,
                           decision.agent_responses[1].response)
          /\ decision.final_answer.prefix = "Based on the responses: "
          /\ pc = "safety" =>
                /\ decision.final_answer.body # synthesis_data.final_answer
                /\ decision.confidence # synthesis_data.confidence

\* The synthesizer's call came to None in a run whose agent_0 response has
\* more than 200 characters: the Decision has the first 200 of them, and
\* neither the answer nor the confidence 0.3 of the fallback object.
C18_Witness ==
    /\ pc = "safety"
    /\ synthesis_data.fallback
    /\ synthesis_data.confidence = 30
    /\ decision.made /\ decision.path = "fallback"
    /\ text_len(decision.agent_responses[1].response) > 200
    /\ text_len(decision.final_answer.body) = 200
    /\ decision.confidence = FALLBACK_CONFIDENCE

\* C19: the confidence of the fallback path is a constant lower than the
\* default that the normal path gives a reply without a confidence field,
\* so that the confidence tells the two cases apart.
C19_FallbackConfidenceLower ==
    pc = "safety" =>
        /\ decision.path = "fallback" => decision.confidence < DEFAULT_CONFIDENCE
        /\ (decision.path = "normal" /\ synthesis_data.confidence = -1)
              => decision.confidence > FALLBACK_CONFIDENCE

\* C20: every Decision that stage 3 returns, and every row of the audit
\* log, has a confidence in [0, 1] (0 .. 100 hundredths), whatever
\* confidence the synthesizer's reply carried; a reply whose confidence is
\* out of the range gives no Decision and no row.
C20_ConfidenceInRange ==
    /\ decision.made => (decision.confidence >= 0 /\ decision.confidence <= 100)
    /\ \A j \in DOMAIN audit_log :
          audit_log[j].confidence >= 0 /\ audit_log[j].confidence <= 100
    /\ (synthesis_data.kind = "dict" /\ ~synthesis_data.fallback
            /\ (synthesis_data.confidence > 100 \/ synthesis_data.confidence < -1))
          => (~decision.made /\ rows_of_run(runs) = {})

\* The first run's synthesizer gave the confidence 0.3, which its row
\* shows; the second run's gave 1.5 and the run ended without a Decision
\* and without a row.
C20_Witness ==
    /\ Len(responses) = 2
    /\ Len(audit_log) = 1
    /\ audit_log[1].confidence = 30
    /\ synthesis_data.confidence = 150
    /\ ~decision.made
    /\ responses[2].status = "error"
    /\ responses[2].code = 400

\* C21: a question that fails the input validation is turned away before
\* stage 1, with no model call and no audit row, and its caller gets an
\* error of the validation kind (400), not of the internal kind (500).
C21_InvalidQuestionIs400 ==
    \A k \in DOMAIN responses :
        ~responses[k].stage1
            => /\ responses[k].status = "error"
               /\ responses[k].code = 400
               /\ rows_of_run(responses[k].run) = {}

\* C22: a run with a valid question whose audit write does not fail ends
\* approved or rejected, whatever the model calls came to: an error
\* outcome of a run that started stage 1 comes from the audit write alone.
C22_UpstreamFaultsDegrade ==
    (LastDone /\ last_response.stage1 /\ last_response.status = "error")
        => (SafetyReturned /\ rows_of_run(runs) = {})

\* C23: a failed audit write is surfaced: log_decision raises, the caller
\* of deliberate gets an error outcome, and no run returns approved or
\* rejected without its row in the store.
C23_AuditFailureSurfaced ==
    /\ pc = "respond" => rows_of_run(runs) # {}
    /\ (LastDone /\ SafetyReturned /\ rows_of_run(runs) = {})
          => /\ last_response.status = "error"
             /\ last_response.code = 500
             /\ ~last_response.has_decision
    /\ \A k \in Answered : rows_of_run(responses[k].run) # {}

\* The second run's decision passed the safety gate, its audit write
\* failed, and the run ended with an error and without a row, after a
\* first run that was answered and has its row.
C23_Witness ==
    /\ LastDone
    /\ runs = 2
    /\ SafetyReturned /\ safety_result.passed
    /\ rows_of_run(2) = {}
    /\ last_response.status = "error"
    /\ responses[1].status = "approved"
    /\ Len(audit_log) = 1

\* C24: a log_decision with a decision whose record the store already has
\* succeeds and returns the audit_id, and the store keeps one record for it.
C24_SecondAppendIdempotent ==
    /\ (aReply.op = "log_decision" /\ aReply.rows # <<>>)
          => aReply.outcome = "returned"
    /\ \A i, j \in DOMAIN aStore :
          aStore[i].audit_id = aStore[j].audit_id => i = j

is_newest_first(rows) ==
    \A i, j \in DOMAIN rows : i < j => rows[i].timestamp >= rows[j].timestamp

\* C25: the recent list has at most 100 records and no more than the limit
\* of the request, newest first, and no record left out is newer than one
\* returned.
C25_RecentListBounded ==
    aReply.op = "get_recent_decisions" =>
        /\ Len(aReply.rows) <= 100
        /\ Len(aReply.rows) <= IF aReply.arg < 0 THEN 0 ELSE aReply.arg
        /\ is_newest_first(aReply.rows)
        /\ LET view == connection_view(aStore, aPending) IN
           \A i \in DOMAIN view, j \in DOMAIN aReply.rows :
               view[i].timestamp > aReply.rows[j].timestamp
                   => \E k \in DOMAIN aReply.rows : aReply.rows[k] = view[i]

\* C26: the request for the statistics is answered by get_audit_stats and
\* by no other handler, and get_statistics gives the same fields for a
\* store with records as for the empty store.
C26_StatisticsServed ==
    /\ (aReply.op = "get_audit" /\ aReply.outcome # "none")
          => aReply.arg.text # "stats"
    /\ DOMAIN get_statistics(connection_view(aStore, aPending))
          = DOMAIN get_statistics(<<>>)

\* C27: with the inserts and commits of several runs interleaved on the
\* one connection, every audit_id is stored once, the record of a run that
\* has not committed is not published by another run.
C27_InterleavedWritesIsolated ==
    /\ \A i, j \in DOMAIN aStore :
          aStore[i].audit_id = aStore[j].audit_id => i = j
    /\ \A t \in DOMAIN aThread :
          aThread[t] # NoRow => get_decision(aStore, aThread[t].audit_id) = <<>>

\* What GET /api/audit/<audit_id> gives on the rows of the connection.
audit_lookup(audit_id) ==
    audit_handler(<<Seg("id", audit_id)>>, connection_view(aStore, aPending))

C35_state ==
    /\ (aReply.op = "log_decision" /\ aReply.outcome = "returned") =>
          LET d == aReply.arg
              got == audit_lookup(d.audit_id)
          IN  /\ got.outcome = "found"
              /\ Len(got.rows) = 1
              /\ got.rows[1].audit_id = d.audit_id
              /\ got.rows[1].timestamp = d.timestamp
              /\ got.rows[1].confidence = d.confidence
              /\ (got.rows[1].safety_passed = 1) = d.safety_passed
              /\ got.rows[1].safety_violations = violations_of(d)
              /\ get_decision(aStore, d.audit_id) # <<>>
    /\ \A id \in AuditIds :
          get_decision(connection_view(aStore, aPending), id) = <<>>
              => /\ audit_lookup(id).outcome = "not_found"
                 /\ audit_lookup(id).rows = <<>>

C35_step ==
    \A i \in DOMAIN aStore : i \in DOMAIN aStore' /\ aStore'[i] = aStore[i]

notes_of(notes, type) == Len(SelectSeq(notes, LAMBDA n : n.type = type))

tops_differ(evaluations) ==
    /\ Len(evaluations) >= 2
    /\ evaluations[1].rankings # <<>>
    /\ evaluations[2].rankings # <<>>
    /\ evaluations[1].rankings[1] # evaluations[2].rankings[1]

resolved(t) == fTasks[t].state = "done" /\ fTasks[t].result # "raised"

\* C28: no judge's call is started before every generator's call has
\* returned, the chairman's call is not started before every judge's call
\* has returned, the safety gate runs only after the chairman's call has
\* returned, and the audit write only after the safety gate has run.
C28_StagesAreBarriers ==
    /\ \A j \in Judges :
          fTasks[j].state # "idle" => \A g \in Generators : resolved(g)
    /\ fTasks[Chairman].state # "idle" => \A j \in Judges : resolved(j)
    /\ "safety_check" \in fDone => resolved(Chairman)
    /\ "log_decision" \in fDone => "safety_check" \in fDone
    /\ fStage \in {"stage3", "safety", "audit", "respond"}
          => \A t \in Generators \cup Judges : resolved(t)

\* A judge's call has raised and ended the run while the other judge's
\* call is still waiting for its reply, after a generator's call that gave
\* up: the chairman's call is not made.
C28_Witness ==
    /\ fStage = "error"
    /\ fTasks["judge0"].result = "raised"
    /\ fTasks["judge1"].state = "request"
    /\ fTasks["gen1"].result = "None"
    /\ fTasks[Chairman].state = "idle"

RetryableOutcomes == {"http429", "timeout"}

\* C30: a step of one call changes no other call of the run (no sibling is
\* cancelled, delayed or charged an attempt); a call starts with attempt 0
\* also in a later stage, counts its own attempts one by one, and gives up
\* on a failure that can be retried only on its own last attempt.
C30_step ==
    \A t \in Tasks :
        /\ (fTasks[t].state # "idle" /\ fTasks'[t] # fTasks[t])
              => \A u \in Tasks \ {t} : fTasks'[u] = fTasks[u]
        /\ (fTasks[t].state = "idle" /\ fTasks'[t].state # "idle")
              => fTasks'[t] = StartedTask
        /\ (fTasks[t].state = "request" /\ fTasks'[t].state = "sleep")
              => /\ fTasks'[t].attempt = fTasks[t].attempt
                 /\ fTasks[t].attempt < DEFAULT_MAX_RETRIES - 1
        /\ (fTasks[t].state = "sleep" /\ fTasks'[t] # fTasks[t])
              => fTasks'[t] = Task("request", fTasks[t].attempt + 1, "pending", "none")
        /\ (fTasks[t].state = "request" /\ fTasks'[t].state = "done"
               /\ fTasks'[t].last \in RetryableOutcomes)
              => fTasks[t].attempt = DEFAULT_MAX_RETRIES - 1
        /\ fTasks[t].state = "done" => fTasks'[t] = fTasks[t]

C30_CallsIndependent == [][C30_step]_vars

\* One generator's call gave up after its last attempt timed out, its
\* sibling got a reply, and the third sleeps before its last attempt.
C30_Witness ==
    /\ fStage = "stage1"
    /\ fTasks["gen0"].result = "None" /\ fTasks["gen0"].last = "timeout"
    /\ fTasks["gen1"].result = "reply"
    /\ fTasks["gen2"].state = "sleep" /\ fTasks["gen2"].attempt = 1

AfterStage1 == pc \in {"stage2", "stage3", "safety", "audit", "respond"}

\* C6: stage1_generate_answers returns exactly N AgentResponses for the N
\* configured generator identities, whatever the list holds and whatever
\* the calls return, and element i has agent_id agent_i and the i-th
\* identity as its model.
C6_OneResponsePerGenerator ==
    AfterStage1 =>
        /\ Len(agent_responses) = Len(GENERATOR_MODELS)
        /\ \A i \in DOMAIN agent_responses :
              /\ agent_responses[i].agent_id = i - 1
              /\ agent_responses[i].model = GENERATOR_MODELS[i]

\* C32: when the call to generator i succeeded, the response text of
\* agent_i is the content of the reply that the call returned, and the
\* transcript of the judges carries that text for agent_i.
C32_ResponseIsReplyContent ==
    /\ pc = "stage2" =>
          \A i \in DOMAIN agent_responses :
              gen_returned[i] # "None"
                 => agent_responses[i].response = gen_returned[i]
    /\ \A k \in DOMAIN judge_prompts :
          \A i \in DOMAIN judge_prompts[k].transcript :
              judge_prompts[k].transcript[i].text = agent_responses[i].response

\* C34: safety_check returns a result for every decision that stage 3
\* built, also for one whose first two evaluations have an empty rankings
\* list: it never raises, and the result echoes the decision's confidence.
C34_SafetyCheckTotal ==
    safety_result # NoSafetyResult =>
        /\ ~safety_result.raised
        /\ safety_result.confidence = decision.confidence
        /\ safety_result.passed = (safety_result.violations = <<>>)

\* Stage 3 has returned a decision built from a reply without the
\* fallback tag.
NormalPathDecision ==
    /\ pc = "safety"
    /\ decision.made
    /\ synthesis_data.kind = "dict"
    /\ ~synthesis_data.fallback

\* C36: on the normal path the final answer, the confidence, the risks and
\* the citations of the decision are those of the reply; a reply without
\* risks gives no risk, one without citations no citation, one without
\* confidence the default confidence; and no api_error risk is attached.
C36_NormalPathFromReply ==
    NormalPathDecision =>
        /\ decision.path = "normal"
        /\ synthesis_data.final_answer # "missing"
              => decision.final_answer = Text("", synthesis_data.final_answer)
        /\ decision.confidence = IF synthesis_data.confidence = -1
                                 THEN DEFAULT_CONFIDENCE
                                 ELSE synthesis_data.confidence
        /\ synthesis_data.risks = "missing" => decision.risks = <<>>
        /\ synthesis_data.risks = "low" => decision.risks = <<Risk("bias", "low")>>
        /\ synthesis_data.risks = "high"
              => decision.risks = <<Risk("bias", "low"), Risk("safety", "high")>>
        /\ synthesis_data.citations = "missing" => decision.citations = <<>>
        /\ synthesis_data.citations = "valid" => Len(decision.citations) = 1
        /\ \A i \in DOMAIN decision.risks : decision.risks[i].category # "api_error"

\* A reply with an answer and without confidence, risks and citations:
\* the decision has the default confidence and empty lists.
C36_Witness ==
    /\ NormalPathDecision
    /\ synthesis_data.final_answer = "answer_clean"
    /\ synthesis_data.confidence = -1
    /\ synthesis_data.risks = "missing"
    /\ synthesis_data.citations = "missing"
    /\ decision.confidence = DEFAULT_CONFIDENCE
    /\ decision.risks = <<>>

\* The response text that marks a generator as unavailable.
UnavailableTexts == {"unavailable"}

\* C7: when the call to generator i came to None, stage 1 still completes
\* and the AgentResponse of agent_i has the "unavailable" marker as its
\* response text, which no successful reply has.
C7_FailedGeneratorMarked ==
    pc = "stage2" =>
        \A i \in DOMAIN GENERATOR_MODELS :
            gen_returned[i] = "None"
                => /\ i \in DOMAIN agent_responses
                   /\ agent_responses[i].response \in UnavailableTexts
                   /\ \A k \in DOMAIN agent_responses :
                         gen_returned[k] # "None"
                            => agent_responses[k].response # agent_responses[i].response

=============================================================================
